---------------------------- MODULE Spec2Model ----------------------------
(***************************************************************************)
(* A model of rco-cell (src/src/lib.rs): RcOCell<T>, a reference counted   *)
(* RefCell<Option<T>>, and its weak counterpart WeakRcOCell<T>.            *)
(*                                                                         *)
(* A slot is one Rc<RefCell<Option<T>>> allocation.  Its state is the      *)
(* Option<T> it stores (value), RefCell's borrow flag (flag) and the Rc    *)
(* strong count (strong); strong = 0 is a destroyed slot, which only weak  *)
(* references still name.  refs / muts count the Ref / RefMut guard        *)
(* objects that exist for the slot; they are what the borrow flag is meant *)
(* to account for.  The program holds a WeakRcOCell to every slot.         *)
(*                                                                         *)
(* Every public operation is one action.  An operation that runs a user    *)
(* callback while it holds a guard is two actions, ...Begin and            *)
(* CallbackReturn / CallbackPanic, with the frame of the running call on   *)
(* `stack`, so that the client can act on the cells from inside the        *)
(* callback.  `last` records the most recent call: its name, handle kind,  *)
(* argument, result and the slot's content and flag when it was called.    *)
(***************************************************************************)
EXTENDS Integers, Sequences, FiniteSets, TLC

\* ---------------------------------------------------------------- bounds
\* the values a cell may hold are 1..MaxVal
MaxVal == 2
\* at most MaxShared Ref guards exist for one slot at a time
MaxShared == 2
\* at most MaxStrong strong owners (RcOCell handles) of one slot
MaxStrong == 2
\* at most MaxDepth callbacks are running (nested) at a time
MaxDepth == 1

\* Option::None
None == 0
Val == 1 .. MaxVal
Opt == {None} \cup Val
\* a call is made on an RcOCell or on a WeakRcOCell
Via == {"cell", "weak"}

\* ------------------------------------------------- std::cell::RefCell
\* the borrow flag: UNUSED, WRITING, or the number of readers
UNUSED == 0
WRITING == -1

\* RefCell::try_borrow: a Ref unless the cell is mutably borrowed
RefCellTryBorrow(f) ==
    IF f >= UNUSED THEN [ok |-> TRUE, flag |-> f + 1]
                   ELSE [ok |-> FALSE, flag |-> f]

\* RefCell::try_borrow_mut: a RefMut only if the cell is not borrowed at all
RefCellTryBorrowMut(f) ==
    IF f = UNUSED THEN [ok |-> TRUE, flag |-> WRITING]
                  ELSE [ok |-> FALSE, flag |-> f]

\* Drop for Ref: one reader less
DropRef(f) == f - 1

\* Drop for RefMut: the cell is unused again
DropRefMut(f) == f + 1

\* ------------------------------------------------------------- results
\* RcOCellError::NoValue, ::Dropped, ::BorrowError(Normal), ::BorrowError(Mut)
ErrNoValue == "NoValue"
ErrDropped == "Dropped"
ErrNormal == "BorrowError(Normal)"
ErrMut == "BorrowError(Mut)"

\* what a call produced: Ok(val), Err(err), or a panic caused by err;
\* Running is the result of a call whose callback has not returned yet
ROk(v) == [kind |-> "Ok", err |-> "", val |-> v]
RErr(e) == [kind |-> "Err", err |-> e, val |-> None]
RPanic(e) == [kind |-> "Panic", err |-> e, val |-> None]
Running == [kind |-> "Running", err |-> "", val |-> None]
\* a bool result as a number
B(b) == IF b THEN 1 ELSE 0

\* RcOCellComputeResult<T>
Replace(x) == [kind |-> "Replace", val |-> x]
Remove == [kind |-> "Remove", val |-> None]
DoNothing == [kind |-> "DoNothing", val |-> None]
ComputeResults == {Replace(x) : x \in Val} \cup {Remove, DoNothing}
\* arguments of the other calls: a value, or nothing
ArgVal(v) == [kind |-> "Value", val |-> v]
NoArg == [kind |-> "NoArg", val |-> None]

\* the outcome of a call on a slot with content c and borrow flag f:
\* its result, the slot's new content and flag, and the guard it hands out
Out(r, c, f, g) == [res |-> r, value |-> c, flag |-> f, guard |-> g]

VARIABLES value, flag, strong, refs, muts, stack, last

vars == <<value, flag, strong, refs, muts, stack, last>>

\* the slots the program has allocated
Slots == DOMAIN strong

\* ------------------------------------------------------------- handles
\* frames of running callbacks on slot s
FramesOn(s) == {i \in 1 .. Len(stack) : stack[i].slot = s}
\* strong owners of s that are the temporaries of running weak calls
TempStrong(s) == Cardinality({i \in FramesOn(s) : stack[i].via = "weak"})
\* RcOCell handles of s the client holds
ClientStrong(s) == strong[s] - TempStrong(s)
\* guards of s held by running library calls / by the client
FrameRefs(s) == Cardinality({i \in FramesOn(s) : stack[i].mode = "ref"})
FrameMuts(s) == Cardinality({i \in FramesOn(s) : stack[i].mode = "mut"})
ClientRefs(s) == refs[s] - FrameRefs(s)
ClientMuts(s) == muts[s] - FrameMuts(s)

\* the client can make the call: it holds a handle of that kind
HasHandle(s, via) == via = "cell" => ClientStrong(s) >= 1

\* the calls a directly following call remembers
Tracked == {"set", "drop_ref", "unwind_ref", "drop_mut", "unwind_mut"}
NoPrev == [op |-> "other", val |-> None]
\* the calls that remember the call they directly follow
Following == {"get_and_clear", "borrow_mut", "try_borrow_mut", "into_result"}
\* the second cell of a call that takes two (swap), as it was when called
Other(s, c, f) == [slot |-> s, preVal |-> c, preFlag |-> f]
NoOther == Other("", None, UNUSED)

\* the record of a call: pv / pf are the slot's content and flag when it was
\* called, ran says whether its callback ran, cv is the content the callback
\* left behind when it returned, and prev names the call it directly follows
\* on the same cell when that was a successful set(v) or the release of a
\* guard, or a successful set(v) through a WeakRcOCell that a get_and_clone
\* on a cell directly follows ("weak_set"), or the conversion of a cell into a
\* WeakRcOCell that a try_upgrade or is_none on a WeakRcOCell directly follows
\* ("into_weak", with the strong count the conversion found); preStrong is
\* the slot's strong count before the step that made the record (for a call
\* that ran a callback: before it returned, its own upgraded handle
\* included); text is what the call wrote to a Formatter
Call(op, via, s, arg, r, pv, pf, ran, cv) ==
    [op |-> op, via |-> via, slot |-> s, arg |-> arg, res |-> r,
     preVal |-> pv, preFlag |-> pf, ran |-> ran, cbVal |-> cv,
     prev |-> IF /\ op \in Following /\ via = "cell"
                 /\ last.op \in Tracked /\ last.via = "cell" /\ last.slot = s
                 /\ last.res.kind = "Ok"
              THEN [op |-> last.op, val |-> last.arg.val]
              ELSE IF /\ op = "get_and_clone" /\ via = "cell"
                      /\ last.op = "set" /\ last.via = "weak" /\ last.slot = s
                      /\ last.res.kind = "Ok"
              THEN [op |-> "weak_set", val |-> last.arg.val]
              ELSE IF /\ op \in {"try_upgrade", "is_none"} /\ via = "weak"
                      /\ last.op = "into_weak" /\ last.slot = s
              THEN [op |-> "into_weak", val |-> last.preStrong]
              ELSE NoPrev,
     other |-> NoOther, preStrong |-> strong[s], text |-> ""]

\* RcOCell::new / from_value / from_option: a fresh slot with one strong owner
from_option(o) == [value |-> o, flag |-> UNUSED, strong |-> 1]

\* the program has built the cells of S, each with new() or from_value(v)
Built(S) ==
    /\ \E ov \in [S -> Opt] :
        /\ value = [s \in S |-> from_option(ov[s]).value]
        /\ flag = [s \in S |-> from_option(ov[s]).flag]
        /\ strong = [s \in S |-> from_option(ov[s]).strong]
        /\ last = [op |-> IF ov["A"] = None THEN "new" ELSE "from_value",
                   via |-> "cell", slot |-> "A",
                   arg |-> IF ov["A"] = None THEN NoArg ELSE ArgVal(ov["A"]),
                   res |-> ROk(None), preVal |-> None, preFlag |-> UNUSED,
                   ran |-> FALSE, cbVal |-> None, prev |-> NoPrev,
                   other |-> NoOther, preStrong |-> 0, text |-> ""]
    /\ refs = [s \in S |-> 0]
    /\ muts = [s \in S |-> 0]
    /\ stack = <<>>

Init == Built({"A"})

\* a program with two cells
InitSwap == Built({"A", "B"})

\* the state after a call on slot s that runs no callback, with outcome o
Apply(op, via, s, arg, o) ==
    /\ value' = [value EXCEPT ![s] = o.value]
    /\ flag' = [flag EXCEPT ![s] = o.flag]
    /\ refs' = [refs EXCEPT ![s] = @ + B(o.guard = "ref")]
    /\ muts' = [muts EXCEPT ![s] = @ + B(o.guard = "mut")]
    /\ last' = Call(op, via, s, arg, o.res, value[s], flag[s], FALSE, value[s])
    /\ UNCHANGED <<strong, stack>>

\* mutant: the clone is not counted as an owner
RcCloneUncounted(n) == n

\* Rc::clone on an allocation with n strong owners
RcClone(n) == n + 1

\* Clone for RcOCell: one more strong owner of the same slot
Clone(s) ==
    /\ ClientStrong(s) >= 1
    /\ strong[s] < MaxStrong
    /\ strong' = [strong EXCEPT ![s] = RcClone(@)]
    /\ last' = Call("clone", "cell", s, NoArg, ROk(None), value[s], flag[s],
                    FALSE, value[s])
    /\ UNCHANGED <<value, flag, refs, muts, stack>>

\* mutant: the owner is forgotten instead of dropped
RcDropLeak(n, c) == [strong |-> n, value |-> c]

\* Drop for Rc with n strong owners and content c: the slot and its value
\* are destroyed with the last strong owner
RcDrop(n, c) == [strong |-> n - 1, value |-> IF n = 1 THEN None ELSE c]

\* the client drops an RcOCell; a handle that a guard or a running call
\* borrows cannot be dropped
DropCell(s) ==
    /\ ClientStrong(s) >= 1
    /\ \/ ClientStrong(s) >= 2
       \/ /\ ClientRefs(s) + ClientMuts(s) = 0
          /\ \A i \in FramesOn(s) : stack[i].via = "weak"
    /\ LET d == RcDrop(strong[s], value[s]) IN
       /\ strong' = [strong EXCEPT ![s] = d.strong]
       /\ value' = [value EXCEPT ![s] = d.value]
    /\ last' = Call("drop", "cell", s, NoArg, ROk(None), value[s], flag[s],
                    FALSE, value[s])
    /\ UNCHANGED <<flag, refs, muts, stack>>

\* mutant: upgrade hands out the allocation although no owner is left
RcUpgradeRevive(n) == [ok |-> TRUE, strong |-> n + 1]

\* Weak::upgrade on an allocation with n strong owners: None once the last
\* owner is gone, one more owner otherwise
RcUpgrade(n) ==
    IF n = 0 THEN [ok |-> FALSE, strong |-> n] ELSE [ok |-> TRUE, strong |-> n + 1]

\* WeakRcOCell::upgrade (panics on a dropped slot) and ::try_upgrade; the
\* RcOCell they return is a new handle of the client
Upgrade(s) ==
    /\ strong[s] < MaxStrong
    /\ LET u == RcUpgrade(strong[s]) IN
       /\ strong' = [strong EXCEPT ![s] = u.strong]
       /\ last' = Call("upgrade", "weak", s, NoArg,
                       IF u.ok THEN ROk(value[s]) ELSE RPanic(ErrDropped),
                       value[s], flag[s], FALSE, value[s])
    /\ UNCHANGED <<value, flag, refs, muts, stack>>

WeakTryUpgrade(s) ==
    /\ strong[s] < MaxStrong
    /\ LET u == RcUpgrade(strong[s]) IN
       /\ strong' = [strong EXCEPT ![s] = u.strong]
       /\ last' = Call("try_upgrade", "weak", s, NoArg,
                       IF u.ok THEN ROk(value[s]) ELSE RErr(ErrDropped),
                       value[s], flag[s], FALSE, value[s])
    /\ UNCHANGED <<value, flag, refs, muts, stack>>

\* mutant: the RefMut is not given back on the NoValue path
try_borrow_mut_leak(c, f) ==
    LET b == RefCellTryBorrowMut(f) IN
    IF ~b.ok THEN Out(RErr(ErrMut), c, f, "none")
    ELSE IF c = None THEN Out(RErr(ErrNoValue), c, b.flag, "none")
    ELSE Out(ROk(c), c, b.flag, "mut")

\* -------------------------------------------------------------- borrows
\* RcOCell::try_borrow_mut
try_borrow_mut(c, f) ==
    LET b == RefCellTryBorrowMut(f) IN
    IF ~b.ok THEN Out(RErr(ErrMut), c, f, "none")
    ELSE IF c = None THEN Out(RErr(ErrNoValue), c, DropRefMut(b.flag), "none")
    ELSE Out(ROk(c), c, b.flag, "mut")

\* mutant: a reference is handed out that the borrow flag does not count
try_borrow_unguarded(c, f) ==
    IF c = None THEN Out(RErr(ErrNoValue), c, f, "none")
    ELSE Out(ROk(c), c, f, "ref")

\* RcOCell::try_borrow
try_borrow(c, f) ==
    LET b == RefCellTryBorrow(f) IN
    IF ~b.ok THEN Out(RErr(ErrNormal), c, f, "none")
    ELSE IF c = None THEN Out(RErr(ErrNoValue), c, DropRef(b.flag), "none")
    ELSE Out(ROk(c), c, b.flag, "ref")

\* mutant: the Ref survives the panic on an empty slot
borrow_leak(c, f) ==
    LET b == RefCellTryBorrow(f) IN
    IF ~b.ok THEN Out(RPanic(ErrNormal), c, f, "none")
    ELSE IF c = None THEN Out(RPanic(ErrNoValue), c, b.flag, "none")
    ELSE Out(ROk(c), c, b.flag, "ref")

\* RcOCell::borrow: RefCell::borrow panics when try_borrow fails; the unwrap
\* inside Ref::map panics on None and the unwinding drops the Ref
borrow(c, f) ==
    LET b == RefCellTryBorrow(f) IN
    IF ~b.ok THEN Out(RPanic(ErrNormal), c, f, "none")
    ELSE IF c = None THEN Out(RPanic(ErrNoValue), c, DropRef(b.flag), "none")
    ELSE Out(ROk(c), c, b.flag, "ref")

\* mutant: borrow_mut only looks for another writer
borrow_mut_over_readers(c, f) ==
    IF f = WRITING THEN Out(RPanic(ErrMut), c, f, "none")
    ELSE IF c = None THEN Out(RPanic(ErrNoValue), c, f, "none")
    ELSE Out(ROk(c), c, WRITING, "mut")

\* RcOCell::borrow_mut
borrow_mut(c, f) ==
    LET b == RefCellTryBorrowMut(f) IN
    IF ~b.ok THEN Out(RPanic(ErrMut), c, f, "none")
    ELSE IF c = None THEN Out(RPanic(ErrNoValue), c, DropRefMut(b.flag), "none")
    ELSE Out(ROk(c), c, b.flag, "mut")

TryBorrowMut(s) ==
    /\ HasHandle(s, "cell")
    /\ Apply("try_borrow_mut", "cell", s, NoArg, try_borrow_mut(value[s], flag[s]))

TryBorrow(s) ==
    /\ HasHandle(s, "cell")
    /\ flag[s] < MaxShared
    /\ Apply("try_borrow", "cell", s, NoArg, try_borrow(value[s], flag[s]))

Borrow(s) ==
    /\ HasHandle(s, "cell")
    /\ flag[s] < MaxShared
    /\ Apply("borrow", "cell", s, NoArg, borrow(value[s], flag[s]))

BorrowMut(s) ==
    /\ HasHandle(s, "cell")
    /\ Apply("borrow_mut", "cell", s, NoArg, borrow_mut(value[s], flag[s]))

\* a Ref the client holds goes out of scope, by leaving the scope
\* ("drop_ref") or by a panic unwinding it ("unwind_ref")
ReleaseRef(s, how) ==
    /\ ClientRefs(s) >= 1
    /\ flag' = [flag EXCEPT ![s] = DropRef(@)]
    /\ refs' = [refs EXCEPT ![s] = @ - 1]
    /\ last' = Call(how, "cell", s, NoArg, ROk(None), value[s], flag[s],
                    FALSE, value[s])
    /\ UNCHANGED <<value, strong, muts, stack>>

\* a RefMut the client holds goes out of scope ("drop_mut", "unwind_mut")
ReleaseRefMut(s, how) ==
    /\ ClientMuts(s) >= 1
    /\ flag' = [flag EXCEPT ![s] = DropRefMut(@)]
    /\ muts' = [muts EXCEPT ![s] = @ - 1]
    /\ last' = Call(how, "cell", s, NoArg, ROk(None), value[s], flag[s],
                    FALSE, value[s])
    /\ UNCHANGED <<value, strong, refs, stack>>

\* a client that holds a RefMut writes through it
WriteRefMut(s, v) ==
    /\ ClientMuts(s) >= 1
    /\ value' = [value EXCEPT ![s] = v]
    /\ last' = Call("write", "cell", s, ArgVal(v), ROk(None), value[s], flag[s],
                    FALSE, value[s])
    /\ UNCHANGED <<flag, strong, refs, muts, stack>>

\* ------------------------------------------------------------ mutators
\* RefCell::replace(n): borrow_mut, store n, hand back the old content
RefCellReplace(c, f, n) ==
    LET b == RefCellTryBorrowMut(f) IN
    IF ~b.ok THEN [ok |-> FALSE, old |-> c, value |-> c, flag |-> f]
    ELSE [ok |-> TRUE, old |-> c, value |-> n, flag |-> DropRefMut(b.flag)]

\* RcOCell::set
set(c, f, v) ==
    LET r == RefCellReplace(c, f, v) IN
    IF ~r.ok THEN Out(RPanic(ErrMut), c, f, "none")
    ELSE Out(ROk(r.old), r.value, r.flag, "none")

\* mutant: clear forgets the content it removed
clear_forgetful(c, f) ==
    LET r == RefCellReplace(c, f, None) IN
    IF ~r.ok THEN Out(RPanic(ErrMut), c, f, "none")
    ELSE Out(ROk(None), r.value, r.flag, "none")

\* RcOCell::clear
clear(c, f) ==
    LET r == RefCellReplace(c, f, None) IN
    IF ~r.ok THEN Out(RPanic(ErrMut), c, f, "none")
    ELSE Out(ROk(r.old), r.value, r.flag, "none")

\* mutant: try_set without its drop(try_borrow_mut()?) line
try_set_unchecked(c, f, v) == set(c, f, v)

\* RcOCell::try_set: drop(try_borrow_mut()?) and then set
try_set(c, f, v) ==
    LET b == RefCellTryBorrowMut(f) IN
    IF ~b.ok THEN Out(RErr(ErrMut), c, f, "none")
    ELSE set(c, DropRefMut(b.flag), v)

\* mutant: try_clear without its drop(try_borrow_mut()?) line and with a
\* store that does not look at the borrow flag
try_clear_forced(c, f) == Out(ROk(c), None, f, "none")

\* RcOCell::try_clear
try_clear(c, f) ==
    LET b == RefCellTryBorrowMut(f) IN
    IF ~b.ok THEN Out(RErr(ErrMut), c, f, "none")
    ELSE clear(c, DropRefMut(b.flag))

\* mutant: get_and_clear hands back the value and leaves it in the slot
get_and_clear_keep(c, f) ==
    LET r == RefCellReplace(c, f, c) IN
    IF ~r.ok THEN Out(RPanic(ErrMut), c, f, "none")
    ELSE IF r.old = None THEN Out(RPanic(ErrNoValue), r.value, r.flag, "none")
    ELSE Out(ROk(r.old), r.value, r.flag, "none")

\* RcOCell::get_and_clear
get_and_clear(c, f) ==
    LET r == RefCellReplace(c, f, None) IN
    IF ~r.ok THEN Out(RPanic(ErrMut), c, f, "none")
    ELSE IF r.old = None THEN Out(RPanic(ErrNoValue), r.value, r.flag, "none")
    ELSE Out(ROk(r.old), r.value, r.flag, "none")

\* RcOCell::try_get_and_clear
try_get_and_clear(c, f) ==
    LET b == RefCellTryBorrowMut(f) IN
    IF ~b.ok THEN Out(RErr(ErrMut), c, f, "none")
    ELSE LET r == RefCellReplace(c, DropRefMut(b.flag), None) IN
         IF ~r.ok THEN Out(RPanic(ErrMut), c, DropRefMut(b.flag), "none")
         ELSE IF r.old = None THEN Out(RErr(ErrNoValue), r.value, r.flag, "none")
         ELSE Out(ROk(r.old), r.value, r.flag, "none")

\* mutant: replace stores the new value before it looks at the old one
replace_store_first(c, f, v) ==
    LET r == RefCellReplace(c, f, v) IN
    IF ~r.ok THEN Out(RPanic(ErrMut), c, f, "none")
    ELSE IF r.old = None THEN Out(RPanic(ErrNoValue), r.value, r.flag, "none")
    ELSE Out(ROk(r.old), r.value, r.flag, "none")

\* RcOCell::replace: get_and_clear, then store the new value
replace(c, f, v) ==
    LET g == get_and_clear(c, f) IN
    IF g.res.kind # "Ok" THEN g
    ELSE LET r == RefCellReplace(g.value, g.flag, v) IN
         IF ~r.ok THEN Out(RPanic(ErrMut), g.value, g.flag, "none")
         ELSE Out(g.res, r.value, r.flag, "none")

\* RcOCell::try_replace
try_replace(c, f, v) ==
    LET b == RefCellTryBorrowMut(f) IN
    IF ~b.ok THEN Out(RErr(ErrMut), c, f, "none")
    ELSE LET r == RefCellReplace(c, DropRefMut(b.flag), None) IN
         IF ~r.ok THEN Out(RPanic(ErrMut), c, DropRefMut(b.flag), "none")
         ELSE IF r.old = None THEN Out(RErr(ErrNoValue), r.value, r.flag, "none")
         ELSE LET w == RefCellReplace(r.value, r.flag, v) IN
              IF ~w.ok THEN Out(RPanic(ErrMut), r.value, r.flag, "none")
              ELSE Out(ROk(r.old), w.value, w.flag, "none")

\* RcOCell::get_and_clone: the Ref of borrow() is a temporary
get_and_clone(c, f) ==
    LET b == borrow(c, f) IN
    IF b.res.kind # "Ok" THEN b
    ELSE Out(ROk(c), c, DropRef(b.flag), "none")

\* RcOCell::try_get_and_clone
try_get_and_clone(c, f) ==
    LET b == try_borrow(c, f) IN
    IF b.res.kind # "Ok" THEN b
    ELSE Out(ROk(c), c, DropRef(b.flag), "none")

\* mutant: is_some answers for the content it cannot look at
is_some_blind(c, f) ==
    LET b == RefCellTryBorrow(f) IN
    IF ~b.ok THEN Out(ROk(B(FALSE)), c, f, "none")
    ELSE Out(ROk(B(c # None)), c, DropRef(b.flag), "none")

\* RcOCell::is_some
is_some(c, f) ==
    LET b == RefCellTryBorrow(f) IN
    IF ~b.ok THEN Out(ROk(B(TRUE)), c, f, "none")
    ELSE Out(ROk(B(c # None)), c, DropRef(b.flag), "none")

\* mutant: is_none takes a refused borrow for an empty slot
is_none_blind(c, f) ==
    LET b == RefCellTryBorrow(f) IN
    IF ~b.ok THEN Out(ROk(B(TRUE)), c, f, "none")
    ELSE Out(ROk(B(c = None)), c, DropRef(b.flag), "none")

\* RcOCell::is_none
is_none(c, f) ==
    LET b == RefCellTryBorrow(f) IN
    IF ~b.ok THEN Out(ROk(B(FALSE)), c, f, "none")
    ELSE Out(ROk(B(c = None)), c, DropRef(b.flag), "none")

\* WeakRcOCell::is_some / is_none: a dropped slot is none
weak_is_some(n, c, f) == IF n = 0 THEN Out(ROk(B(FALSE)), c, f, "none") ELSE is_some(c, f)
weak_is_none(n, c, f) == IF n = 0 THEN Out(ROk(B(TRUE)), c, f, "none") ELSE is_none(c, f)

\* mutant: the try call goes ahead without looking at the upgrade's result
TryUpgradeUnchecked(n, c, f, o) == o

\* WeakRcOCell::try_upgrade()? in front of a try call: Err(Dropped) when the
\* slot has no strong owner (n = 0), and the call's own outcome o otherwise
TryUpgrade(n, c, f, o) == IF n = 0 THEN Out(RErr(ErrDropped), c, f, "none") ELSE o

\* WeakRcOCell::try_upgrade().expect(..) in front of a direct call
UpgradeExpect(n, c, f, o) == IF n = 0 THEN Out(RPanic(ErrDropped), c, f, "none") ELSE o

\* mutant: a call through a WeakRcOCell works on a copy of the slot
DirectDetached(via, s, o) ==
    IF via = "weak"
    THEN UpgradeExpect(strong[s], value[s], flag[s],
                       Out(o.res, value[s], flag[s], "none"))
    ELSE o

\* the outcome of a direct / a try call made through handle kind via
Direct(via, s, o) ==
    IF via = "weak" THEN UpgradeExpect(strong[s], value[s], flag[s], o) ELSE o
Try(via, s, o) ==
    IF via = "weak" THEN TryUpgrade(strong[s], value[s], flag[s], o) ELSE o

Set(s, via, v) ==
    /\ HasHandle(s, via)
    /\ Apply("set", via, s, ArgVal(v), Direct(via, s, set(value[s], flag[s], v)))

TrySet(s, via, v) ==
    /\ HasHandle(s, via)
    /\ Apply("try_set", via, s, ArgVal(v), Try(via, s, try_set(value[s], flag[s], v)))

Clear(s, via) ==
    /\ HasHandle(s, via)
    /\ Apply("clear", via, s, NoArg, Direct(via, s, clear(value[s], flag[s])))

TryClear(s, via) ==
    /\ HasHandle(s, via)
    /\ Apply("try_clear", via, s, NoArg, Try(via, s, try_clear(value[s], flag[s])))

GetAndClear(s, via) ==
    /\ HasHandle(s, via)
    /\ Apply("get_and_clear", via, s, NoArg,
             Direct(via, s, get_and_clear(value[s], flag[s])))

TryGetAndClear(s, via) ==
    /\ HasHandle(s, via)
    /\ Apply("try_get_and_clear", via, s, NoArg,
             Try(via, s, try_get_and_clear(value[s], flag[s])))

ReplaceValue(s, via, v) ==
    /\ HasHandle(s, via)
    /\ Apply("replace", via, s, ArgVal(v),
             Direct(via, s, replace(value[s], flag[s], v)))

TryReplace(s, via, v) ==
    /\ HasHandle(s, via)
    /\ Apply("try_replace", via, s, ArgVal(v),
             Try(via, s, try_replace(value[s], flag[s], v)))

GetAndClone(s, via) ==
    /\ HasHandle(s, via)
    /\ Apply("get_and_clone", via, s, NoArg,
             Direct(via, s, get_and_clone(value[s], flag[s])))

TryGetAndClone(s, via) ==
    /\ HasHandle(s, via)
    /\ Apply("try_get_and_clone", via, s, NoArg,
             Try(via, s, try_get_and_clone(value[s], flag[s])))

IsSome(s, via) ==
    /\ HasHandle(s, via)
    /\ Apply("is_some", via, s, NoArg,
             IF via = "weak" THEN weak_is_some(strong[s], value[s], flag[s])
                             ELSE is_some(value[s], flag[s]))

IsNone(s, via) ==
    /\ HasHandle(s, via)
    /\ Apply("is_none", via, s, NoArg,
             IF via = "weak" THEN weak_is_none(strong[s], value[s], flag[s])
                             ELSE is_none(value[s], flag[s]))

\* ------------------------------------------------------------------ swap
\* the outcome of a call on two slots: its result and the content and flag
\* of the first (a) and of the second (b) slot
Out2(r, ca, fa, cb, fb) ==
    [res |-> r, a |-> [value |-> ca, flag |-> fa], b |-> [value |-> cb, flag |-> fb]]

\* RcOCell::swap is RefCell::swap: borrow_mut of self, borrow_mut of other,
\* mem::swap; a panic of the second borrow_mut unwinds the first RefMut.
\* same says that both cells are handles of one slot, whose flag the second
\* borrow_mut then finds WRITING
swap(ca, fa, cb, fb, same) ==
    LET b1 == RefCellTryBorrowMut(fa) IN
    IF ~b1.ok THEN Out2(RPanic(ErrMut), ca, fa, cb, fb)
    ELSE LET b2 == RefCellTryBorrowMut(IF same THEN b1.flag ELSE fb) IN
         IF ~b2.ok
         THEN Out2(RPanic(ErrMut), ca, DropRefMut(b1.flag),
                   cb, IF same THEN DropRefMut(b1.flag) ELSE fb)
         ELSE Out2(ROk(None), cb, DropRefMut(b1.flag), ca, DropRefMut(b2.flag))

\* RcOCell::try_swap: drop(self.try_borrow_mut()?), the same for other, swap
try_swap(ca, fa, cb, fb, same) ==
    LET t1 == try_borrow_mut(ca, fa) IN
    IF t1.res.kind # "Ok" THEN Out2(t1.res, ca, t1.flag, cb, IF same THEN t1.flag ELSE fb)
    ELSE LET f1 == DropRefMut(t1.flag)
             t2 == try_borrow_mut(cb, IF same THEN f1 ELSE fb)
         IN  IF t2.res.kind # "Ok"
             THEN Out2(t2.res, ca, IF same THEN t2.flag ELSE f1, cb, t2.flag)
             ELSE LET w == swap(ca, f1, cb, DropRefMut(t2.flag), same) IN
                  IF w.res.kind = "Panic" THEN w
                  ELSE Out2(ROk(None), w.a.value, w.a.flag, w.b.value, w.b.flag)

\* the state after a call of op on the cells of slots a and b with outcome o
Apply2(op, a, b, o) ==
    /\ value' = [s \in Slots |-> IF s = b THEN o.b.value
                                 ELSE IF s = a THEN o.a.value ELSE value[s]]
    /\ flag' = [s \in Slots |-> IF s = b THEN o.b.flag
                                ELSE IF s = a THEN o.a.flag ELSE flag[s]]
    /\ last' = [Call(op, "cell", a, NoArg, o.res, value[a], flag[a], FALSE, value[a])
                   EXCEPT !.other = Other(b, value[b], flag[b])]
    /\ UNCHANGED <<strong, refs, muts, stack>>

Swap(a, b) ==
    /\ HasHandle(a, "cell") /\ HasHandle(b, "cell")
    /\ Apply2("swap", a, b, swap(value[a], flag[a], value[b], flag[b], a = b))

TrySwap(a, b) ==
    /\ HasHandle(a, "cell") /\ HasHandle(b, "cell")
    /\ Apply2("try_swap", a, b, try_swap(value[a], flag[a], value[b], flag[b], a = b))

\* ------------------------------------------- Display and conversions
\* the strings Display for RcOCell writes
NoValuePresent == "No value present"
BorrowedMutably ==
    "Value currently inaccessible because it is borrowed mutably somewhere"
AlreadyDropped == "Value already dropped"

\* Display for T: the text of value v
DisplayT(v) == ToString(v)

\* mutant: fmt asks for exclusive access
fmt_exclusive(c, f) ==
    LET x == try_borrow_mut(c, f) IN
    IF x.res.kind = "Ok"
    THEN [text |-> DisplayT(x.res.val), out |-> Out(ROk(None), c, DropRefMut(x.flag), "none")]
    ELSE [text |-> CASE x.res.err = ErrNoValue -> NoValuePresent
                     [] x.res.err \in {ErrNormal, ErrMut} -> BorrowedMutably
                     [] x.res.err = ErrDropped -> AlreadyDropped,
          out |-> Out(ROk(None), c, x.flag, "none")]

\* Display::fmt for RcOCell: try_borrow, then the value's own text or the
\* string for the error; the Ref is a temporary
fmt(c, f) ==
    LET x == try_borrow(c, f) IN
    IF x.res.kind = "Ok"
    THEN [text |-> DisplayT(x.res.val), out |-> Out(ROk(None), c, DropRef(x.flag), "none")]
    ELSE [text |-> CASE x.res.err = ErrNoValue -> NoValuePresent
                     [] x.res.err \in {ErrNormal, ErrMut} -> BorrowedMutably
                     [] x.res.err = ErrDropped -> AlreadyDropped,
          out |-> Out(ROk(None), c, x.flag, "none")]

\* format!("{}", cell)
Display(s) ==
    /\ HasHandle(s, "cell")
    /\ LET d == fmt(value[s], flag[s]) IN
       /\ value' = [value EXCEPT ![s] = d.out.value]
       /\ flag' = [flag EXCEPT ![s] = d.out.flag]
       /\ last' = [Call("fmt", "cell", s, NoArg, d.out.res, value[s], flag[s],
                         FALSE, value[s]) EXCEPT !.text = d.text]
    /\ UNCHANGED <<strong, refs, muts, stack>>

\* the client can give away an RcOCell of s: a handle that a guard or a
\* running call borrows cannot be moved
Movable(s) ==
    /\ ClientStrong(s) >= 1
    /\ \/ ClientStrong(s) >= 2
       \/ /\ ClientRefs(s) + ClientMuts(s) = 0
          /\ \A i \in FramesOn(s) : stack[i].via = "weak"

\* the outcome of a conversion that consumes the RcOCell: the call's outcome
\* o on the slot, then the drop of self, one of n strong owners
Consumed(n, o) ==
    LET d == RcDrop(n, o.value) IN
    [res |-> o.res, value |-> d.value, flag |-> o.flag, strong |-> d.strong]

\* mutant: the conversion copies the value and leaves it in the slot
into_result_copy(n, c, f) == Consumed(n, try_get_and_clone(c, f))

\* Into<Result<T, RcOCellError>> for RcOCell: self.try_get_and_clear()
into_result(n, c, f) == Consumed(n, try_get_and_clear(c, f))

\* TryInto<Option<T>> for RcOCell: self.try_clear()
try_into_option(n, c, f) == Consumed(n, try_clear(c, f))

\* mutant: the conversion borrows the cell the way downgrade does
into_weak_borrowing(n, c, f) == [res |-> ROk(None), value |-> c, flag |-> f, strong |-> n]

\* From<RcOCell<T>> for WeakRcOCell<T>: value.downgrade(), and value is
\* dropped; the WeakRcOCell names the slot whether or not an owner is left
into_weak(n, c, f) == Consumed(n, Out(ROk(None), c, f, "none"))

\* the state after conversion op of an RcOCell of s with outcome o
Convert(op, s, o) ==
    /\ Movable(s)
    /\ value' = [value EXCEPT ![s] = o.value]
    /\ flag' = [flag EXCEPT ![s] = o.flag]
    /\ strong' = [strong EXCEPT ![s] = o.strong]
    /\ last' = Call(op, "cell", s, NoArg, o.res, value[s], flag[s], FALSE, value[s])
    /\ UNCHANGED <<refs, muts, stack>>

IntoResult(s) == Convert("into_result", s, into_result(strong[s], value[s], flag[s]))

TryIntoOption(s) ==
    Convert("try_into_option", s, try_into_option(strong[s], value[s], flag[s]))

IntoWeak(s) == Convert("into_weak", s, into_weak(strong[s], value[s], flag[s]))

\* ------------------------------------------------------ callback calls
\* a call that runs a user callback either ends before the callback (Stop)
\* or holds guard g while the callback runs (Run)
Stop(r, c, f) == [run |-> FALSE, out |-> Out(r, c, f, "none")]
Run(c, f, g) == [run |-> TRUE, out |-> Out(Running, c, f, g)]

\* what a callback hands back: an RcOCellComputeResult, an Option<T>, or
\* the X of map
Some(v) == [kind |-> "Some", val |-> v]
NoneRet == [kind |-> "None", val |-> None]
OptionResults == {Some(v) : v \in Val} \cup {NoneRet}
MapResults == {ArgVal(x) : x \in Val}

\* mutant: compute runs its callback under a Ref
compute_under_ref(c, f) ==
    LET b == RefCellTryBorrow(f) IN
    IF ~b.ok THEN Stop(RPanic(ErrNormal), c, f) ELSE Run(c, b.flag, "ref")

\* RcOCell::compute up to the callback: borrow_mut, f(x.as_mut())
compute(c, f) ==
    LET b == RefCellTryBorrowMut(f) IN
    IF ~b.ok THEN Stop(RPanic(ErrMut), c, f) ELSE Run(c, b.flag, "mut")

\* RcOCell::try_compute up to the callback
try_compute(c, f) ==
    LET b == RefCellTryBorrowMut(f) IN
    IF ~b.ok THEN Stop(RErr(ErrMut), c, f) ELSE Run(c, b.flag, "mut")

\* RcOCell::compute_if_present up to the callback
compute_if_present(c, f) ==
    LET b == RefCellTryBorrowMut(f) IN
    IF ~b.ok THEN Stop(RPanic(ErrMut), c, f)
    ELSE IF c = None THEN Stop(ROk(B(FALSE)), c, DropRefMut(b.flag))
    ELSE Run(c, b.flag, "mut")

\* mutant: try_compute_if_present reports true on an empty slot
try_compute_if_present_true(c, f) ==
    LET b == RefCellTryBorrowMut(f) IN
    IF ~b.ok THEN Stop(RErr(ErrMut), c, f)
    ELSE IF c = None THEN Stop(ROk(B(TRUE)), c, DropRefMut(b.flag))
    ELSE Run(c, b.flag, "mut")

\* RcOCell::try_compute_if_present up to the callback
try_compute_if_present(c, f) ==
    LET b == RefCellTryBorrowMut(f) IN
    IF ~b.ok THEN Stop(RErr(ErrMut), c, f)
    ELSE IF c = None THEN Stop(ROk(B(FALSE)), c, DropRefMut(b.flag))
    ELSE Run(c, b.flag, "mut")

\* mutant: compute_if_absent borrows the way compute does
compute_if_absent_strict(c, f) ==
    LET b == RefCellTryBorrowMut(f) IN
    IF ~b.ok THEN Stop(RPanic(ErrMut), c, f)
    ELSE IF c # None THEN Stop(ROk(B(FALSE)), c, DropRefMut(b.flag))
    ELSE Run(c, b.flag, "mut")

\* RcOCell::compute_if_absent up to the callback
compute_if_absent(c, f) ==
    LET b == RefCellTryBorrowMut(f) IN
    IF ~b.ok THEN Stop(ROk(B(FALSE)), c, f)
    ELSE IF c # None THEN Stop(ROk(B(FALSE)), c, DropRefMut(b.flag))
    ELSE Run(c, b.flag, "mut")

\* RcOCell::if_present up to the callback
if_present(c, f) ==
    LET b == RefCellTryBorrow(f) IN
    IF ~b.ok THEN Stop(RPanic(ErrNormal), c, f)
    ELSE IF c = None THEN Stop(ROk(B(FALSE)), c, DropRef(b.flag))
    ELSE Run(c, b.flag, "ref")

\* RcOCell::try_if_present up to the callback
try_if_present(c, f) ==
    LET b == RefCellTryBorrow(f) IN
    IF ~b.ok THEN Stop(RErr(ErrNormal), c, f)
    ELSE IF c = None THEN Stop(ROk(B(FALSE)), c, DropRef(b.flag))
    ELSE Run(c, b.flag, "ref")

\* RcOCell::if_present_mut up to the callback
if_present_mut(c, f) ==
    LET b == RefCellTryBorrowMut(f) IN
    IF ~b.ok THEN Stop(RPanic(ErrMut), c, f)
    ELSE IF c = None THEN Stop(ROk(B(FALSE)), c, DropRefMut(b.flag))
    ELSE Run(c, b.flag, "mut")

\* RcOCell::try_if_present_mut up to the callback
try_if_present_mut(c, f) ==
    LET b == RefCellTryBorrowMut(f) IN
    IF ~b.ok THEN Stop(RErr(ErrMut), c, f)
    ELSE IF c = None THEN Stop(ROk(B(FALSE)), c, DropRefMut(b.flag))
    ELSE Run(c, b.flag, "mut")

\* mutant: map asks for exclusive access
map_exclusive(c, f) ==
    LET b == RefCellTryBorrowMut(f) IN
    IF ~b.ok THEN Stop(RPanic(ErrMut), c, f)
    ELSE IF c = None THEN Stop(ROk(None), c, DropRefMut(b.flag))
    ELSE Run(c, b.flag, "mut")

\* RcOCell::map up to the callback
map(c, f) ==
    LET b == RefCellTryBorrow(f) IN
    IF ~b.ok THEN Stop(RPanic(ErrNormal), c, f)
    ELSE IF c = None THEN Stop(ROk(None), c, DropRef(b.flag))
    ELSE Run(c, b.flag, "ref")

\* RcOCell::try_map up to the callback
try_map(c, f) ==
    LET b == RefCellTryBorrow(f) IN
    IF ~b.ok THEN Stop(RErr(ErrNormal), c, f)
    ELSE IF c = None THEN Stop(ROk(None), c, DropRef(b.flag))
    ELSE Run(c, b.flag, "ref")

\* RcOCell::map_mut up to the callback
map_mut(c, f) ==
    LET b == RefCellTryBorrowMut(f) IN
    IF ~b.ok THEN Stop(RPanic(ErrMut), c, f)
    ELSE IF c = None THEN Stop(ROk(None), c, DropRefMut(b.flag))
    ELSE Run(c, b.flag, "mut")

\* RcOCell::try_map_mut up to the callback
try_map_mut(c, f) ==
    LET b == RefCellTryBorrowMut(f) IN
    IF ~b.ok THEN Stop(RErr(ErrMut), c, f)
    ELSE IF c = None THEN Stop(ROk(None), c, DropRefMut(b.flag))
    ELSE Run(c, b.flag, "mut")

\* the calls whose callback returns an RcOCellComputeResult that is applied,
\* those whose callback's RcOCellComputeResult is dropped, and the maps
ComputeOps == {"compute", "try_compute", "compute_if_present", "try_compute_if_present"}
AbsentOps == {"compute_if_absent", "try_compute_if_absent"}
IfPresentOps == {"if_present", "try_if_present", "if_present_mut", "try_if_present_mut"}
MapOps == {"map", "try_map", "map_mut", "try_map_mut"}

\* mutant: Replace(t) is not stored
apply_result_no_set(c, f, result) ==
    LET f1 == DropRefMut(f) IN
    IF result.kind = "Remove" THEN clear(c, f1)
    ELSE Out(ROk(None), c, f1, "none")

\* compute, try_compute, compute_if_present, try_compute_if_present after
\* the callback returned result: drop(x), then set / clear / nothing
apply_result(c, f, result) ==
    LET f1 == DropRefMut(f) IN
    IF result.kind = "Replace" THEN set(c, f1, result.val)
    ELSE IF result.kind = "Remove" THEN clear(c, f1)
    ELSE Out(ROk(None), c, f1, "none")

\* the rest of a compute-like call; ok is what it returns when nothing panics
compute_return(c, f, result, ok) ==
    LET a == apply_result(c, f, result) IN
    IF a.res.kind = "Panic" THEN a ELSE Out(ok, a.value, a.flag, "none")

\* mutant: the value the callback produced is not stored
compute_if_absent_return_no_set(c, f, result) ==
    Out(ROk(B(TRUE)), c, DropRefMut(f), "none")

\* compute_if_absent after the callback returned result: drop(x), set
compute_if_absent_return(c, f, result) ==
    LET f1 == DropRefMut(f) IN
    IF result.kind = "Some"
    THEN LET a == set(c, f1, result.val) IN
         IF a.res.kind = "Panic" THEN a ELSE Out(ROk(B(TRUE)), a.value, a.flag, "none")
    ELSE Out(ROk(B(TRUE)), c, f1, "none")

\* if_present / try_if_present after the callback: its result is dropped,
\* true is returned and the Ref goes out of scope
if_present_return(c, f, result) == Out(ROk(B(TRUE)), c, DropRef(f), "none")

\* mutant: if_present_mut applies the result the way compute_if_present does
if_present_mut_return_applied(c, f, result) ==
    LET a == IF result.kind = "Replace" THEN set(c, DropRefMut(f), result.val)
             ELSE IF result.kind = "Remove" THEN clear(c, DropRefMut(f))
             ELSE Out(ROk(None), c, DropRefMut(f), "none")
    IN  Out(ROk(B(TRUE)), a.value, a.flag, "none")

\* if_present_mut / try_if_present_mut after the callback
if_present_mut_return(c, f, result) == Out(ROk(B(TRUE)), c, DropRefMut(f), "none")

\* map / try_map after the callback returned x: Some(x)
map_return(c, f, x) == Out(ROk(x.val), c, DropRef(f), "none")

\* map_mut / try_map_mut after the callback returned x
map_mut_return(c, f, x) == Out(ROk(x.val), c, DropRefMut(f), "none")

\* what the callback of op may return
Returns(op) ==
    IF op \in ComputeOps \cup IfPresentOps THEN ComputeResults
    ELSE IF op \in AbsentOps THEN OptionResults
    ELSE MapResults

\* the outcome of op once its callback has returned result
Return(op, c, f, result) ==
    IF op \in {"compute", "try_compute"} THEN compute_return(c, f, result, ROk(None))
    ELSE IF op \in ComputeOps THEN compute_return(c, f, result, ROk(B(TRUE)))
    ELSE IF op \in AbsentOps THEN compute_if_absent_return(c, f, result)
    ELSE IF op \in {"if_present", "try_if_present"} THEN if_present_return(c, f, result)
    ELSE IF op \in IfPresentOps THEN if_present_mut_return(c, f, result)
    ELSE IF op \in {"map", "try_map"} THEN map_return(c, f, result)
    ELSE map_mut_return(c, f, result)

\* a call of op on slot s through via, which came as far as e: it ended, or
\* its callback starts running with the call's frame on the stack (a weak
\* call keeps its upgraded RcOCell, a strong owner, until it returns)
Enter(op, via, s, e) ==
    IF ~e.run THEN Apply(op, via, s, NoArg, e.out)
    ELSE
        /\ Len(stack) < MaxDepth
        /\ e.out.guard = "ref" => flag[s] < MaxShared
        /\ strong[s] + B(via = "weak") <= MaxStrong
        /\ flag' = [flag EXCEPT ![s] = e.out.flag]
        /\ refs' = [refs EXCEPT ![s] = @ + B(e.out.guard = "ref")]
        /\ muts' = [muts EXCEPT ![s] = @ + B(e.out.guard = "mut")]
        /\ strong' = [strong EXCEPT ![s] = @ + B(via = "weak")]
        /\ stack' = Append(stack, [op |-> op, via |-> via, slot |-> s,
                                   mode |-> e.out.guard, preVal |-> value[s],
                                   preFlag |-> flag[s]])
        /\ last' = Call(op, via, s, NoArg, Running, value[s], flag[s], TRUE, value[s])
        /\ UNCHANGED value

\* a direct / try call with a callback, made through handle kind via
DirectCb(via, s, e) ==
    IF via = "weak" /\ strong[s] = 0
    THEN Stop(RPanic(ErrDropped), value[s], flag[s]) ELSE e
TryCb(via, s, e) ==
    IF via = "weak" /\ strong[s] = 0
    THEN Stop(RErr(ErrDropped), value[s], flag[s]) ELSE e

Compute(s, via) ==
    /\ HasHandle(s, via)
    /\ Enter("compute", via, s, DirectCb(via, s, compute(value[s], flag[s])))

TryCompute(s, via) ==
    /\ HasHandle(s, via)
    /\ Enter("try_compute", via, s, TryCb(via, s, try_compute(value[s], flag[s])))

ComputeIfPresent(s, via) ==
    /\ HasHandle(s, via)
    /\ Enter("compute_if_present", via, s,
             DirectCb(via, s, compute_if_present(value[s], flag[s])))

TryComputeIfPresent(s, via) ==
    /\ HasHandle(s, via)
    /\ Enter("try_compute_if_present", via, s,
             TryCb(via, s, try_compute_if_present(value[s], flag[s])))

ComputeIfAbsent(s, via) ==
    /\ HasHandle(s, via)
    /\ Enter("compute_if_absent", via, s,
             DirectCb(via, s, compute_if_absent(value[s], flag[s])))

\* WeakRcOCell::try_compute_if_absent (RcOCell has no such method)
TryComputeIfAbsent(s) ==
    /\ HasHandle(s, "weak")
    /\ Enter("try_compute_if_absent", "weak", s,
             TryCb("weak", s, compute_if_absent(value[s], flag[s])))

IfPresent(s, via) ==
    /\ HasHandle(s, via)
    /\ Enter("if_present", via, s, DirectCb(via, s, if_present(value[s], flag[s])))

TryIfPresent(s, via) ==
    /\ HasHandle(s, via)
    /\ Enter("try_if_present", via, s,
             TryCb(via, s, try_if_present(value[s], flag[s])))

IfPresentMut(s, via) ==
    /\ HasHandle(s, via)
    /\ Enter("if_present_mut", via, s,
             DirectCb(via, s, if_present_mut(value[s], flag[s])))

TryIfPresentMut(s, via) ==
    /\ HasHandle(s, via)
    /\ Enter("try_if_present_mut", via, s,
             TryCb(via, s, try_if_present_mut(value[s], flag[s])))

Map(s, via) ==
    /\ HasHandle(s, via)
    /\ Enter("map", via, s, DirectCb(via, s, map(value[s], flag[s])))

TryMap(s, via) ==
    /\ HasHandle(s, via)
    /\ Enter("try_map", via, s, TryCb(via, s, try_map(value[s], flag[s])))

MapMut(s, via) ==
    /\ HasHandle(s, via)
    /\ Enter("map_mut", via, s, DirectCb(via, s, map_mut(value[s], flag[s])))

TryMapMut(s, via) ==
    /\ HasHandle(s, via)
    /\ Enter("try_map_mut", via, s, TryCb(via, s, try_map_mut(value[s], flag[s])))

\* the frame of the callback that is running
Top == stack[Len(stack)]

\* the running callback writes through the &mut T it was given
CallbackWrite(v) ==
    /\ stack # <<>>
    /\ Top.mode = "mut"
    /\ value[Top.slot] # None
    /\ value' = [value EXCEPT ![Top.slot] = v]
    /\ last' = Call("callback_write", Top.via, Top.slot, ArgVal(v), ROk(None),
                    value[Top.slot], flag[Top.slot], FALSE, value[Top.slot])
    /\ UNCHANGED <<flag, strong, refs, muts, stack>>

\* the state once the call of frame fr is over with outcome o: its guard is
\* gone and a weak call's upgraded RcOCell is dropped
Leave(fr, arg, o) ==
    LET s == fr.slot
        d == IF fr.via = "weak" THEN RcDrop(strong[s], o.value)
             ELSE [strong |-> strong[s], value |-> o.value]
    IN  /\ value' = [value EXCEPT ![s] = d.value]
        /\ strong' = [strong EXCEPT ![s] = d.strong]
        /\ flag' = [flag EXCEPT ![s] = o.flag]
        /\ refs' = [refs EXCEPT ![s] = @ - B(fr.mode = "ref")]
        /\ muts' = [muts EXCEPT ![s] = @ - B(fr.mode = "mut")]
        /\ stack' = SubSeq(stack, 1, Len(stack) - 1)
        /\ last' = Call(fr.op, fr.via, s, arg, o.res, fr.preVal, fr.preFlag,
                        TRUE, value[s])

\* the running callback returns result and its call completes
CallbackReturn(result) ==
    /\ stack # <<>>
    /\ result \in Returns(Top.op)
    /\ Leave(Top, result, Return(Top.op, value[Top.slot], flag[Top.slot], result))

\* the guard x of a call is dropped while a panic of its callback unwinds
unwind(c, f, mode) ==
    Out(RPanic("callback"), c, IF mode = "ref" THEN DropRef(f) ELSE DropRefMut(f), "none")

\* the running callback panics
CallbackPanic ==
    /\ stack # <<>>
    /\ Leave(Top, NoArg, unwind(value[Top.slot], flag[Top.slot], Top.mode))

Next ==
    \/ \E s \in Slots : Clone(s)
    \/ \E s \in Slots : DropCell(s)
    \/ \E s \in Slots : Upgrade(s)
    \/ \E s \in Slots : WeakTryUpgrade(s)
    \/ \E s \in Slots : TryBorrowMut(s)
    \/ \E s \in Slots : TryBorrow(s)
    \/ \E s \in Slots : Borrow(s)
    \/ \E s \in Slots : BorrowMut(s)
    \/ \E s \in Slots, how \in {"drop_ref", "unwind_ref"} : ReleaseRef(s, how)
    \/ \E s \in Slots, how \in {"drop_mut", "unwind_mut"} : ReleaseRefMut(s, how)
    \/ \E s \in Slots, v \in Val : WriteRefMut(s, v)
    \/ \E s \in Slots, via \in Via, v \in Val : Set(s, via, v)
    \/ \E s \in Slots, via \in Via, v \in Val : TrySet(s, via, v)
    \/ \E s \in Slots, via \in Via : Clear(s, via)
    \/ \E s \in Slots, via \in Via : TryClear(s, via)
    \/ \E s \in Slots, via \in Via : GetAndClear(s, via)
    \/ \E s \in Slots, via \in Via : TryGetAndClear(s, via)
    \/ \E s \in Slots, via \in Via, v \in Val : ReplaceValue(s, via, v)
    \/ \E s \in Slots, via \in Via, v \in Val : TryReplace(s, via, v)
    \/ \E s \in Slots, via \in Via : GetAndClone(s, via)
    \/ \E s \in Slots, via \in Via : TryGetAndClone(s, via)
    \/ \E s \in Slots, via \in Via : IsSome(s, via)
    \/ \E s \in Slots, via \in Via : IsNone(s, via)
    \/ \E s \in Slots, via \in Via : Compute(s, via)
    \/ \E s \in Slots, via \in Via : TryCompute(s, via)
    \/ \E s \in Slots, via \in Via : ComputeIfPresent(s, via)
    \/ \E s \in Slots, via \in Via : TryComputeIfPresent(s, via)
    \/ \E s \in Slots, via \in Via : ComputeIfAbsent(s, via)
    \/ \E s \in Slots : TryComputeIfAbsent(s)
    \/ \E s \in Slots, via \in Via : IfPresent(s, via)
    \/ \E s \in Slots, via \in Via : TryIfPresent(s, via)
    \/ \E s \in Slots, via \in Via : IfPresentMut(s, via)
    \/ \E s \in Slots, via \in Via : TryIfPresentMut(s, via)
    \/ \E s \in Slots, via \in Via : Map(s, via)
    \/ \E s \in Slots, via \in Via : TryMap(s, via)
    \/ \E s \in Slots, via \in Via : MapMut(s, via)
    \/ \E s \in Slots, via \in Via : TryMapMut(s, via)
    \/ \E v \in Val : CallbackWrite(v)
    \/ \E result \in ComputeResults \cup OptionResults \cup MapResults :
          CallbackReturn(result)
    \/ CallbackPanic

Spec == Init /\ [][Next]_vars

\* a program that swaps two cells: it borrows from them, releases the guards,
\* stores and removes values, and swaps a cell with the other or with itself
NextSwap ==
    \/ \E a \in Slots, b \in Slots : Swap(a, b)
    \/ \E a \in Slots, b \in Slots : TrySwap(a, b)
    \/ \E s \in Slots : Borrow(s)
    \/ \E s \in Slots : BorrowMut(s)
    \/ \E s \in Slots : ReleaseRef(s, "drop_ref")
    \/ \E s \in Slots : ReleaseRefMut(s, "drop_mut")
    \/ \E s \in Slots, v \in Val : Set(s, "cell", v)
    \/ \E s \in Slots : Clear(s, "cell")

SpecSwap == InitSwap /\ [][NextSwap]_vars

\* a program that clones, converts and prints the handles of one cell: it
\* borrows from it and releases the guards, stores and removes values, runs
\* compute, and asks through the weak reference what is left
NextConv ==
    \/ \E s \in Slots : Display(s)
    \/ \E s \in Slots : IntoResult(s)
    \/ \E s \in Slots : TryIntoOption(s)
    \/ \E s \in Slots : IntoWeak(s)
    \/ \E s \in Slots : Clone(s)
    \/ \E s \in Slots : DropCell(s)
    \/ \E s \in Slots : WeakTryUpgrade(s)
    \/ \E s \in Slots : Borrow(s)
    \/ \E s \in Slots : BorrowMut(s)
    \/ \E s \in Slots : ReleaseRef(s, "drop_ref")
    \/ \E s \in Slots : ReleaseRefMut(s, "drop_mut")
    \/ \E s \in Slots, via \in Via, v \in Val : Set(s, via, v)
    \/ \E s \in Slots, via \in Via : Clear(s, via)
    \/ \E s \in Slots, via \in Via : GetAndClone(s, via)
    \/ \E s \in Slots, via \in Via : IsSome(s, via)
    \/ \E s \in Slots, via \in Via : IsNone(s, via)
    \/ \E s \in Slots, via \in Via : Compute(s, via)
    \/ \E result \in ComputeResults : CallbackReturn(result)

SpecConv == Init /\ [][NextConv]_vars

\* ================================================================ claims
\* the slot of the most recent call
S == last.slot
\* the most recent call was op, made on an RcOCell
Called(ops) == last.op \in ops /\ last.via = "cell"
\* the most recent call has returned (its callback is not running and did
\* not panic)
Returned == last.res.kind \in {"Ok", "Err"}

\* C1: in every reachable state the access state of a slot is free,
\* shared(n) with n > 0, or exclusive: at most one RefMut exists, never
\* together with a Ref, and the borrow flag says exactly which guards exist.
C1_AccessState ==
    \A s \in Slots :
        /\ muts[s] \in {0, 1}
        /\ refs[s] >= 0
        /\ ~(muts[s] = 1 /\ refs[s] > 0)
        /\ muts[s] = 1 <=> flag[s] = WRITING
        /\ muts[s] = 0 => flag[s] = refs[s]

\* a borrow was refused while the exclusive guard was outstanding
C1_Witness ==
    /\ Called({"try_borrow"}) /\ last.res = RErr(ErrNormal)
    /\ muts[S] = 1 /\ refs[S] = 0 /\ flag[S] = WRITING

SharedTry == {"try_borrow", "try_map", "try_if_present", "try_get_and_clone"}
ExclusiveTry ==
    {"try_borrow_mut", "try_set", "try_clear", "try_replace", "try_get_and_clear",
     "try_compute", "try_compute_if_present", "try_if_present_mut", "try_map_mut"}

C4_Release ==
    /\ Called({"drop_ref", "unwind_ref"}) =>
        /\ last.preFlag > 0
        /\ flag[S] = last.preFlag - 1
    /\ Called({"drop_mut", "unwind_mut"}) =>
        /\ last.preFlag = WRITING
        /\ flag[S] = UNUSED
    /\ Called({"borrow_mut", "try_borrow_mut"}) =>
        (last.res.kind = "Ok" <=> (last.preFlag = UNUSED /\ last.preVal # None))
    /\ Called({"borrow", "try_borrow"}) =>
        (last.res.kind = "Ok" <=> (last.preFlag # WRITING /\ last.preVal # None))
    /\ (Called({"borrow_mut", "try_borrow_mut"})
           /\ last.prev.op \in {"drop_mut", "unwind_mut"}) =>
        last.res.kind = "Ok"
    /\ (Called({"borrow_mut", "try_borrow_mut"})
           /\ last.prev.op \in {"drop_ref", "unwind_ref"}) =>
        (last.res.kind = "Ok" <=> last.preFlag = UNUSED)

\* borrow_mut succeeded directly after a panic released the RefMut
C4_Witness ==
    /\ Called({"borrow_mut"}) /\ last.res.kind = "Ok"
    /\ last.prev.op = "unwind_mut"
    /\ last.preFlag = UNUSED /\ flag[S] = WRITING

\* C5: set(v) directly followed by get_and_clear() on a cell returns exactly
\* v and leaves the cell empty: is_none() is true and is_some() false; a
\* cell built with new() is empty and one built with from_value(v) holds v.
C5_SetGetAndClear ==
    /\ (Called({"get_and_clear"}) /\ last.prev.op = "set") =>
        /\ last.res = ROk(last.prev.val)
        /\ value[S] = None
        /\ is_none(value[S], flag[S]).res = ROk(B(TRUE))
        /\ is_some(value[S], flag[S]).res = ROk(B(FALSE))
    /\ Called({"set"}) =>
        (last.res.kind = "Ok" <=> last.preFlag = UNUSED)
    /\ Called({"new"}) =>
        /\ value[S] = None
        /\ is_none(value[S], flag[S]).res = ROk(B(TRUE))
        /\ is_some(value[S], flag[S]).res = ROk(B(FALSE))
    /\ Called({"from_value"}) => value[S] = last.arg.val

\* get_and_clear returned the value that set had just stored
C5_Witness ==
    /\ Called({"get_and_clear"}) /\ last.prev = [op |-> "set", val |-> MaxVal]
    /\ last.res = ROk(MaxVal) /\ value[S] = None

\* the content of the slot after the RcOCellComputeResult result was applied
\* to a slot the callback left holding cv
Applied(result, cv) ==
    IF result.kind = "Replace" THEN result.val
    ELSE IF result.kind = "Remove" THEN None
    ELSE cv

\* C6 as stated: after compute / try_compute on a cell without a guard the
\* slot holds x for Replace(x), is empty for Remove, and for DoNothing its
\* presence and value are as they were before the call.
C6_AsStated ==
    (Called({"compute", "try_compute"}) /\ last.ran /\ Returned) =>
        /\ value[S] = Applied(last.arg, last.preVal)
        /\ flag[S] = UNUSED

\* C6, amended: compute / try_compute on a cell without a guard run the
\* callback once with the current optional value; afterwards the slot holds
\* x for Replace(x) and is empty for Remove; for DoNothing its presence is as
\* before the call and its value is the one the callback left through its
\* mutable view; the access state is free.  With a guard outstanding the
\* callback does not run.
C6_Compute ==
    Called({"compute", "try_compute"}) =>
        /\ last.ran <=> last.preFlag = UNUSED
        /\ (last.ran /\ Returned) =>
            /\ last.res = ROk(None)
            /\ value[S] = Applied(last.arg, last.cbVal)
            /\ (last.cbVal = None) <=> (last.preVal = None)
            /\ flag[S] = UNUSED /\ refs[S] = 0 /\ muts[S] = 0

\* the callback wrote through its view and returned DoNothing
C6_Witness ==
    /\ Called({"compute", "try_compute"}) /\ last.ran /\ Returned
    /\ last.arg = DoNothing
    /\ last.preVal # None /\ last.cbVal # last.preVal /\ value[S] = last.cbVal

\* C7: compute_if_absent on a populated cell returns false without running
\* the callback and leaves the value; on an empty cell without a guard it
\* runs the callback once, returns true, and the slot holds the value the
\* callback produced.
C7_ComputeIfAbsent ==
    Called({"compute_if_absent"}) =>
        /\ last.preVal # None =>
            /\ last.res = ROk(B(FALSE))
            /\ ~last.ran
            /\ value[S] = last.preVal /\ flag[S] = last.preFlag
        /\ (last.preVal = None /\ last.preFlag = UNUSED) =>
            /\ last.ran
            /\ Returned =>
                /\ last.res = ROk(B(TRUE))
                /\ last.arg \in OptionResults
                /\ value[S] = last.arg.val
                /\ flag[S] = UNUSED

\* the callback ran on an empty cell and its value is in the slot
C7_Witness ==
    /\ Called({"compute_if_absent"}) /\ last.res = ROk(B(TRUE))
    /\ last.preVal = None /\ last.arg = Some(MaxVal) /\ value[S] = MaxVal

\* C8: with any guard outstanding, RcOCell::compute_if_absent returns false
\* without running the callback and changes neither value nor access state;
\* it never panics itself (only its callback can).
C8_ComputeIfAbsentContended ==
    Called({"compute_if_absent"}) =>
        /\ last.preFlag # UNUSED =>
            /\ last.res = ROk(B(FALSE))
            /\ ~last.ran
            /\ value[S] = last.preVal /\ flag[S] = last.preFlag
        /\ last.res.kind = "Panic" => (last.ran /\ last.res.err = "callback")

\* compute_if_absent was called on an empty slot under the RefMut of a
\* running compute
C8_Witness ==
    /\ Called({"compute_if_absent"}) /\ last.res = ROk(B(FALSE))
    /\ last.preFlag = WRITING /\ last.preVal = None /\ muts[S] = 1

C10_IfPresent ==
    Called(IfPresentOps) =>
        /\ (last.ran /\ Returned) =>
            /\ last.res = ROk(B(TRUE))
            /\ last.preVal # None
            /\ value[S] # None /\ value[S] = last.cbVal
            /\ last.op \in {"if_present", "try_if_present"} => value[S] = last.preVal
            /\ (last.arg.kind = "Replace" /\ last.arg.val # last.cbVal) =>
                   value[S] # last.arg.val
        /\ last.res = ROk(B(TRUE)) => last.ran
        /\ (last.preVal = None /\ last.res.kind \notin {"Panic", "Err"}) =>
            /\ last.res = ROk(B(FALSE))
            /\ ~last.ran
            /\ value[S] = None
        /\ (last.preVal # None /\ last.res.kind = "Ok") => last.res = ROk(B(TRUE))

\* the callback of if_present_mut returned Remove and the value is still there
C10_Witness ==
    /\ Called({"if_present_mut"}) /\ last.res = ROk(B(TRUE))
    /\ last.arg = Remove /\ value[S] = last.preVal /\ value[S] # None

\* the slot of the most recent call is free: no guard is outstanding
Free(s) == flag[s] = UNUSED /\ refs[s] = 0 /\ muts[s] = 0

\* C11: on an empty cell without a guard get_and_clear and replace(v) panic
\* and try_get_and_clear and try_replace(v) return NoValue; the slot is
\* still empty afterwards (v is not installed) and free.
C11_EmptyTake ==
    (Called({"get_and_clear", "replace", "try_get_and_clear", "try_replace"})
        /\ last.preVal = None /\ last.preFlag = UNUSED) =>
        /\ last.res = IF last.op \in {"get_and_clear", "replace"}
                      THEN RPanic(ErrNoValue) ELSE RErr(ErrNoValue)
        /\ value[S] = None
        /\ Free(S)

\* replace(v) panicked on an empty free cell and v is not in the slot
C11_Witness ==
    /\ Called({"replace"}) /\ last.res = RPanic(ErrNoValue)
    /\ last.preVal = None /\ last.preFlag = UNUSED /\ last.arg = ArgVal(MaxVal)
    /\ value[S] = None /\ Free(S)

\* C12: on a cell without a guard set(v) succeeds, returns the previous
\* optional content and leaves the slot holding v; clear succeeds, returns
\* the previous optional content and leaves the slot empty; replace(v) on a
\* populated slot returns the previous value and leaves the slot holding v.
C12_SetClearReplace ==
    /\ (Called({"set", "try_set"}) /\ last.preFlag = UNUSED) =>
        /\ last.res = ROk(last.preVal)
        /\ value[S] = last.arg.val /\ value[S] \in Val
        /\ Free(S)
    /\ (Called({"clear", "try_clear"}) /\ last.preFlag = UNUSED) =>
        /\ last.res = ROk(last.preVal)
        /\ value[S] = None
        /\ Free(S)
    /\ (Called({"replace", "try_replace"}) /\ last.preFlag = UNUSED
            /\ last.preVal # None) =>
        /\ last.res = ROk(last.preVal)
        /\ value[S] = last.arg.val /\ value[S] \in Val
        /\ Free(S)

\* clear handed back the value it removed from a populated cell
C12_Witness ==
    /\ Called({"clear"}) /\ last.preFlag = UNUSED
    /\ last.preVal = MaxVal /\ last.res = ROk(MaxVal) /\ value[S] = None

\* the calls that replace the slot's content, and their try forms
DirectMutators == {"set", "clear", "replace", "get_and_clear"}
TryMutators == {"try_set", "try_clear", "try_replace", "try_get_and_clear"}

\* C13: while any guard is outstanding on the slot, set, clear, replace and
\* get_and_clear panic and their try forms return BorrowError(Mut); the
\* failed call changes neither the slot's value nor the guards; once the
\* guards are released set and clear succeed, and so does a get_and_clear
\* that directly follows the release of the last guard.
C13_MutatorsUnderGuard ==
    /\ (Called(DirectMutators \cup TryMutators) /\ last.preFlag # UNUSED) =>
        /\ last.res = IF last.op \in DirectMutators
                      THEN RPanic(ErrMut) ELSE RErr(ErrMut)
        /\ value[S] = last.preVal
        /\ flag[S] = last.preFlag
        /\ refs[S] + muts[S] >= 1
    /\ (Called(DirectMutators \cup TryMutators) /\ last.preFlag = UNUSED) =>
        /\ last.res.err \notin {ErrMut, ErrNormal}
        /\ last.res.kind = "Ok" <=>
              (last.op \in {"set", "try_set", "clear", "try_clear"}
                  \/ last.preVal # None)
    /\ (Called({"get_and_clear"}) /\ last.preFlag = UNUSED
            /\ last.prev.op \in {"drop_ref", "unwind_ref", "drop_mut", "unwind_mut"}) =>
        last.res = ROk(last.preVal)

\* try_clear was refused under a Ref, which still observes its value
C13_Witness ==
    /\ Called({"try_clear"}) /\ last.res = RErr(ErrMut)
    /\ last.preFlag = 1 /\ refs[S] = 1 /\ flag[S] = 1
    /\ value[S] = last.preVal /\ value[S] # None


\* the most recent call was op on the cells of two different slots
Called2(ops) == Called(ops) /\ last.other.slot \notin {"", last.slot}
\* the second slot of the most recent call
S2 == last.other.slot

\* C14 as stated: swap and try_swap between two cells without guards
\* exchange the contents of the two slots, and try_swap returns an error
\* only if one of the two values is borrowed.
C14_AsStated ==
    /\ (Called2({"swap", "try_swap"}) /\ last.preFlag = UNUSED
            /\ last.other.preFlag = UNUSED) =>
        /\ last.res = ROk(None)
        /\ value[S] = last.other.preVal
        /\ value[S2] = last.preVal
    /\ (Called2({"try_swap"}) /\ last.res.kind = "Err") =>
        (last.preFlag # UNUSED \/ last.other.preFlag # UNUSED)

\* C15 as stated: if either cell has an outstanding guard, swap panics and
\* try_swap returns an access-conflict error; neither slot's content has
\* changed and no additional guard remains on either slot.
C15_AsStated ==
    (Called2({"swap", "try_swap"})
        /\ (last.preFlag # UNUSED \/ last.other.preFlag # UNUSED)) =>
        /\ last.res = IF last.op = "swap" THEN RPanic(ErrMut) ELSE RErr(ErrMut)
        /\ value[S] = last.preVal /\ value[S2] = last.other.preVal
        /\ flag[S] = last.preFlag /\ flag[S2] = last.other.preFlag


\* the most recent call was op, made on a WeakRcOCell
WeakCalled(ops) == last.op \in ops /\ last.via = "weak"
\* the most recent call found its slot destroyed: no strong owner was left
FoundDropped == last.preStrong = 0 /\ last.op \notin {"new", "from_value"}

\* C16: dropping a strong owner takes one from the strong count; once the
\* last one is dropped every later step finds and leaves the slot without an
\* owner: a weak reference reports is_none() = true and is_some() = false
\* and try_upgrade fails with Dropped, and no call makes an upgrade succeed
\* again.  While a strong owner exists (a clone made before the original
\* was dropped) try_upgrade succeeds and the value is intact.
C16_WeakDropped ==
    /\ FoundDropped => strong[S] = 0
    /\ (WeakCalled({"is_none"}) /\ FoundDropped) => last.res = ROk(B(TRUE))
    /\ (WeakCalled({"is_some"}) /\ FoundDropped) => last.res = ROk(B(FALSE))
    /\ WeakCalled({"try_upgrade"}) =>
        /\ last.res = RErr(ErrDropped) <=> last.preStrong = 0
        /\ last.preStrong >= 1 =>
            /\ last.res = ROk(last.preVal)
            /\ value[S] = last.preVal
            /\ strong[S] = last.preStrong + 1
    /\ Called({"drop"}) =>
        /\ last.preStrong >= 1
        /\ strong[S] = last.preStrong - 1
        /\ strong[S] >= 1 => (value[S] = last.preVal /\ flag[S] = last.preFlag)
    /\ Called({"clone"}) =>
        /\ strong[S] = last.preStrong + 1
        /\ value[S] = last.preVal /\ flag[S] = last.preFlag

\* try_upgrade failed with Dropped on a slot whose owners are all gone
C16_Witness ==
    /\ WeakCalled({"try_upgrade"}) /\ last.res = RErr(ErrDropped)
    /\ last.preStrong = 0 /\ strong[S] = 0


\* the calls that read the value, and the try calls a guard can refuse
Readers == {"borrow", "try_borrow", "get_and_clone", "try_get_and_clone"}
\* the most recent call was op through a handle of either kind, on a slot
\* that was alive
Live(ops) == last.op \in ops /\ last.preStrong >= 1

\* C17: the clones of a cell and the weak references to it are handles of
\* one slot.  A clone is one more owner of the slot of its original, with
\* the same value and guards; a value stored or removed through a handle of
\* either kind is the content of the slot, which is what a read through a
\* handle of either kind returns (a get_and_clone on a cell directly after
\* set(v) through a weak reference returns v); a guard taken through a cell
\* makes the calls through a weak reference fail the way they fail on a cell.
C17_SharedSlot ==
    /\ Called({"clone"}) =>
        /\ strong[S] = last.preStrong + 1
        /\ value[S] = last.preVal /\ flag[S] = last.preFlag
    /\ (Live({"set", "try_set"}) /\ last.res.kind = "Ok") =>
        value[S] = last.arg.val
    /\ (Live({"clear", "try_clear", "get_and_clear", "try_get_and_clear"})
            /\ last.res.kind = "Ok") =>
        (value[S] = None /\ last.res.val = last.preVal)
    /\ (Live({"compute", "try_compute"}) /\ last.ran /\ Returned) =>
        /\ value[S] = Applied(last.arg, last.cbVal)
           \/ (strong[S] = 0 /\ value[S] = None)
    /\ (Live(Readers) /\ last.res.kind = "Ok") =>
        (last.res.val = last.preVal /\ value[S] = last.preVal /\ value[S] # None)
    /\ (Called({"get_and_clone"}) /\ last.prev.op = "weak_set") =>
        last.res = ROk(last.prev.val)
    /\ (WeakCalled(ExclusiveTry) /\ last.preStrong >= 1) =>
        (last.res = RErr(ErrMut) <=> last.preFlag # UNUSED)
    /\ (WeakCalled(SharedTry) /\ last.preStrong >= 1) =>
        (last.res = RErr(ErrNormal) <=> last.preFlag = WRITING)
    /\ (WeakCalled(DirectMutators) /\ last.preStrong >= 1 /\ last.preFlag # UNUSED) =>
        (last.res = RPanic(ErrMut) /\ value[S] = last.preVal /\ flag[S] = last.preFlag)

\* get_and_clone on the cell returned the value that was stored through the
\* weak reference
C17_Witness ==
    /\ Called({"get_and_clone"}) /\ last.prev = [op |-> "weak_set", val |-> MaxVal]
    /\ last.res = ROk(MaxVal) /\ last.preStrong >= 1


\* the methods of WeakRcOCell: the try forms and the direct forms
WeakTry ==
    {"try_upgrade", "try_compute", "try_compute_if_present", "try_compute_if_absent",
     "try_if_present", "try_if_present_mut", "try_get_and_clear", "try_replace",
     "try_set", "try_clear", "try_map", "try_map_mut", "try_get_and_clone"}
WeakDirect ==
    {"upgrade", "compute", "compute_if_present", "compute_if_absent", "if_present",
     "if_present_mut", "get_and_clear", "replace", "set", "clear", "map", "map_mut",
     "get_and_clone"}

\* C18: a call through a weak reference whose slot has been destroyed
\* returns Dropped if it is a try form and panics if it is a direct form; its
\* callback is not run; is_some() / is_none() return false / true and do
\* not panic; the destroyed slot stays as it is.
C18_WeakOnDropped ==
    (last.via = "weak" /\ FoundDropped) =>
        /\ last.op \in WeakTry \cup WeakDirect \cup {"is_some", "is_none"}
        /\ ~last.ran
        /\ last.op \in WeakTry => last.res = RErr(ErrDropped)
        /\ last.op \in WeakDirect => last.res = RPanic(ErrDropped)
        /\ last.op = "is_some" => last.res = ROk(B(FALSE))
        /\ last.op = "is_none" => last.res = ROk(B(TRUE))
        /\ value[S] = None /\ flag[S] = last.preFlag /\ strong[S] = 0
        /\ stack = <<>>

\* compute through a weak reference panicked on the destroyed slot and its
\* callback did not run
C18_Witness ==
    /\ WeakCalled({"compute"}) /\ FoundDropped
    /\ last.res = RPanic(ErrDropped) /\ ~last.ran /\ stack = <<>>


\* the methods of WeakRcOCell that run a callback, and those that do not
WeakCallbackOps == ComputeOps \cup AbsentOps \cup IfPresentOps \cup MapOps
WeakPlainOps ==
    ((WeakTry \cup WeakDirect) \ (WeakCallbackOps \cup {"upgrade", "try_upgrade"}))
        \cup {"is_some", "is_none"}

\* the outcome of the RcOCell method op, called with arg on a cell with
\* content c and flag f
CellCall(op, c, f, arg) ==
    CASE op = "set" -> set(c, f, arg.val)
      [] op = "try_set" -> try_set(c, f, arg.val)
      [] op = "clear" -> clear(c, f)
      [] op = "try_clear" -> try_clear(c, f)
      [] op = "get_and_clear" -> get_and_clear(c, f)
      [] op = "try_get_and_clear" -> try_get_and_clear(c, f)
      [] op = "replace" -> replace(c, f, arg.val)
      [] op = "try_replace" -> try_replace(c, f, arg.val)
      [] op = "get_and_clone" -> get_and_clone(c, f)
      [] op = "try_get_and_clone" -> try_get_and_clone(c, f)
      [] op = "is_some" -> is_some(c, f)
      [] op = "is_none" -> is_none(c, f)

\* how far the RcOCell method op gets on a cell with content c and flag f
\* before its callback (WeakRcOCell::try_compute_if_absent has no RcOCell
\* method of its name: it is the Ok of compute_if_absent)
CellEnter(op, c, f) ==
    CASE op = "compute" -> compute(c, f)
      [] op = "try_compute" -> try_compute(c, f)
      [] op = "compute_if_present" -> compute_if_present(c, f)
      [] op = "try_compute_if_present" -> try_compute_if_present(c, f)
      [] op \in AbsentOps -> compute_if_absent(c, f)
      [] op = "if_present" -> if_present(c, f)
      [] op = "try_if_present" -> try_if_present(c, f)
      [] op = "if_present_mut" -> if_present_mut(c, f)
      [] op = "try_if_present_mut" -> try_if_present_mut(c, f)
      [] op = "map" -> map(c, f)
      [] op = "try_map" -> try_map(c, f)
      [] op = "map_mut" -> map_mut(c, f)
      [] op = "try_map_mut" -> try_map_mut(c, f)

\* C19: on a slot that is alive a call through a weak reference returns what
\* the same call on a cell of the slot returns and leaves value and flag as
\* that call leaves them; its callback runs in the same cases, under the
\* same guard; once the call has returned its upgraded handle is dropped and
\* the strong count is what it was without it.
C19_WeakAsCell ==
    /\ (WeakCalled(WeakPlainOps) /\ last.preStrong >= 1) =>
        LET o == CellCall(last.op, last.preVal, last.preFlag, last.arg) IN
        /\ last.res = o.res
        /\ value[S] = o.value /\ flag[S] = o.flag
        /\ strong[S] = last.preStrong
    /\ (WeakCalled(WeakCallbackOps) /\ last.preStrong >= 1 /\ ~last.ran) =>
        LET e == CellEnter(last.op, last.preVal, last.preFlag) IN
        /\ ~e.run
        /\ last.res = e.out.res
        /\ value[S] = e.out.value /\ flag[S] = e.out.flag
        /\ strong[S] = last.preStrong
    /\ (WeakCalled(WeakCallbackOps) /\ last.ran) =>
        LET e == CellEnter(last.op, last.preVal, last.preFlag) IN
        /\ e.run
        /\ last.res = Running =>
            /\ value[S] = e.out.value /\ flag[S] = e.out.flag
            /\ strong[S] = last.preStrong + 1
        /\ last.res # Running => strong[S] = last.preStrong - 1
        /\ Returned =>
            \E f \in WRITING .. MaxShared + 1 :
                LET o == Return(last.op, last.cbVal, f, last.arg) IN
                /\ last.res = o.res
                /\ flag[S] = o.flag
                /\ value[S] = IF strong[S] = 0 THEN None ELSE o.value

\* try_compute through a weak reference stored the callback's value and its
\* upgraded handle is gone
C19_Witness ==
    /\ WeakCalled({"try_compute"}) /\ last.ran /\ last.res = ROk(None)
    /\ last.arg = Replace(MaxVal) /\ value[S] = MaxVal
    /\ strong[S] = last.preStrong - 1 /\ strong[S] >= 1


\* a direct form with outcome d and its try form with outcome t agree: the
\* direct form panics exactly where the try form returns an error, and
\* otherwise both have the same outcome
Agree(d, t) ==
    /\ d.res.kind = "Panic" <=> t.res.kind = "Err"
    /\ d.res.kind # "Panic" => d = t

\* the same for the two forms of an operation on one slot with content c
\* and flag f, whatever value they are called with
AgreeOn(c, f) ==
    /\ Agree(borrow(c, f), try_borrow(c, f))
    /\ Agree(borrow_mut(c, f), try_borrow_mut(c, f))
    /\ Agree(get_and_clear(c, f), try_get_and_clear(c, f))
    /\ Agree(clear(c, f), try_clear(c, f))
    /\ Agree(get_and_clone(c, f), try_get_and_clone(c, f))
    /\ \A v \in Val :
        /\ Agree(set(c, f, v), try_set(c, f, v))
        /\ Agree(replace(c, f, v), try_replace(c, f, v))
    /\ Agree(compute(c, f).out, try_compute(c, f).out)
    /\ Agree(compute_if_present(c, f).out, try_compute_if_present(c, f).out)
    /\ Agree(if_present(c, f).out, try_if_present(c, f).out)
    /\ Agree(if_present_mut(c, f).out, try_if_present_mut(c, f).out)
    /\ Agree(map(c, f).out, try_map(c, f).out)
    /\ Agree(map_mut(c, f).out, try_map_mut(c, f).out)

\* C20 as stated: in every reachable state, for every operation that has a
\* direct and a try form, the direct form panics in exactly the states where
\* the try form returns an error, and in every other state both return the
\* same result and leave the same slot state (swap: on two different cells).
C20_AsStated ==
    /\ \A s \in Slots : AgreeOn(value[s], flag[s])
    /\ \A a \in Slots : \A b \in Slots \ {a} :
        Agree(swap(value[a], flag[a], value[b], flag[b], FALSE),
              try_swap(value[a], flag[a], value[b], flag[b], FALSE))


\* every try form of RcOCell and of WeakRcOCell
AllTry == WeakTry \cup ExclusiveTry \cup SharedTry \cup {"try_swap"}

\* C21 as stated: no try form panics, whatever handles it is called with
\* (try_swap with two handles of one slot included): it returns Ok or an
\* RcOCellError, unless its callback panics.
C21_AsStated ==
    (last.op \in AllTry /\ last.res.kind = "Panic") => last.res.err = "callback"


C23_AsStated ==
    /\ \A s \in Slots : flag[s] = WRITING => value[s] # None
    /\ (last.op = "is_some" /\ last.preStrong >= 1 /\ last.res = ROk(B(TRUE))) =>
        last.preVal # None
    /\ (last.op = "is_none" /\ last.preStrong >= 1 /\ last.res = ROk(B(FALSE))) =>
        last.preVal # None


\* C24: Display of a cell writes the value's own text exactly when the slot
\* holds a value and no RefMut is outstanding (Refs may be held), "Value
\* currently inaccessible because it is borrowed mutably somewhere" exactly
\* when a RefMut is outstanding, and "No value present" exactly when the slot
\* is empty and no RefMut is outstanding; it changes neither the slot's value
\* nor its access state.
C24_Display ==
    Called({"fmt"}) =>
        /\ last.res = ROk(None)
        /\ (last.preVal # None /\ last.text = DisplayT(last.preVal))
              <=> (last.preVal # None /\ last.preFlag # WRITING)
        /\ last.text = BorrowedMutably <=> last.preFlag = WRITING
        /\ last.text = NoValuePresent
              <=> (last.preVal = None /\ last.preFlag # WRITING)
        /\ last.text \in {DisplayT(v) : v \in Val} \cup {BorrowedMutably, NoValuePresent}
        /\ value[S] = last.preVal /\ flag[S] = last.preFlag
        /\ strong[S] = last.preStrong

\* the value was printed while a Ref of it was outstanding, and the Ref is
\* still there
C24_Witness ==
    /\ Called({"fmt"}) /\ last.preFlag = 1 /\ last.preVal = MaxVal
    /\ last.text = DisplayT(MaxVal) /\ refs[S] = 1 /\ flag[S] = 1


\* the calls that only read the value, and the maps that may write it
ReadOnly == {"map", "try_map", "get_and_clone", "try_get_and_clone"}
MapMuts == {"map_mut", "try_map_mut"}
\* the most recent call is a direct form
IsDirect == last.op \in WeakDirect \cup {"borrow", "borrow_mut", "swap"}
\* what a refused call produces: a panic of a direct form, an Err of a try form
Refused(e) == IF IsDirect THEN RPanic(e) ELSE RErr(e)

\* C25: map, try_map, get_and_clone and try_get_and_clone need shared access
\* only: they are refused with BorrowError(Normal) exactly when a RefMut is
\* outstanding and go ahead under any number of Refs; they leave the slot's
\* value as it was (get_and_clone returns it without removing it, the
\* callback of map gets a view it cannot write through and its result comes
\* back as Some); on an empty slot map returns None without running the
\* callback and get_and_clone fails with NoValue.  map_mut and try_map_mut
\* need exclusive access and are refused while any guard is outstanding.
C25_ReadOnly ==
    /\ (last.op \in ReadOnly /\ last.preStrong >= 1) =>
        /\ last.res = Refused(ErrNormal) <=> last.preFlag = WRITING
        /\ last.res.err \notin {ErrMut, ErrDropped}
        /\ value[S] = last.preVal \/ (last.via = "weak" /\ strong[S] = 0)
        /\ (last.preVal # None) <=> (last.cbVal # None)
        /\ (last.preFlag # WRITING /\ last.preVal # None) =>
            /\ last.op \in {"map", "try_map"} =>
                /\ last.ran
                /\ Returned => last.res = ROk(last.arg.val)
            /\ last.op \in {"get_and_clone", "try_get_and_clone"} =>
                /\ last.res = ROk(last.preVal)
                /\ flag[S] = last.preFlag
        /\ (last.preFlag # WRITING /\ last.preVal = None) =>
            /\ ~last.ran
            /\ value[S] = None /\ flag[S] = last.preFlag
            /\ last.op \in {"map", "try_map"} => last.res = ROk(None)
            /\ last.op \in {"get_and_clone", "try_get_and_clone"} =>
                last.res = Refused(ErrNoValue)
    /\ (last.op \in MapMuts /\ last.preStrong >= 1) =>
        /\ last.res = Refused(ErrMut) <=> last.preFlag # UNUSED
        /\ last.preFlag # UNUSED =>
            /\ ~last.ran
            /\ value[S] = last.preVal /\ flag[S] = last.preFlag
        /\ last.ran <=> (last.preFlag = UNUSED /\ last.preVal # None)

\* try_map on a cell ran its callback beside an outstanding Ref and returned
\* the callback's result; the value is the one before the call
C25_Witness ==
    /\ Called({"try_map"}) /\ last.ran /\ last.preFlag >= 1
    /\ last.res = ROk(MaxVal) /\ last.arg = ArgVal(MaxVal)
    /\ value[S] = last.preVal /\ value[S] # MaxVal /\ refs[S] >= 1


\* C26: converting a cell into a Result<T> or an Option<T> consumes the cell,
\* takes the value out and leaves the slot empty, which is what every
\* remaining clone and weak reference then observes; with a guard
\* outstanding on the slot (the cell is one of several clones) the conversion
\* returns BorrowError(Mut), not an empty or absent result, and the value
\* stays in the slot; a conversion that directly follows the release of the
\* last guard yields the value.
C26_Conversions ==
    Called({"into_result", "try_into_option"}) =>
        /\ strong[S] = last.preStrong - 1
        /\ last.res.kind # "Panic"
        /\ last.preFlag = UNUSED =>
            /\ last.res = IF last.op = "into_result" /\ last.preVal = None
                          THEN RErr(ErrNoValue) ELSE ROk(last.preVal)
            /\ value[S] = None /\ flag[S] = UNUSED
            /\ strong[S] >= 1 => is_none(value[S], flag[S]).res = ROk(B(TRUE))
            /\ weak_is_none(strong[S], value[S], flag[S]).res = ROk(B(TRUE))
            /\ weak_is_some(strong[S], value[S], flag[S]).res = ROk(B(FALSE))
        /\ last.preFlag # UNUSED =>
            /\ last.res = RErr(ErrMut)
            /\ value[S] = last.preVal /\ flag[S] = last.preFlag
            /\ strong[S] >= 1
        /\ (last.op = "into_result" /\ last.prev.op \in {"drop_ref", "drop_mut"}
                /\ last.preFlag = UNUSED) =>
            (last.preVal # None /\ last.res = ROk(last.preVal))

\* the conversion into a Result directly after the release of the RefMut
\* yielded the value, and the clone that is left finds the slot empty
C26_Witness ==
    /\ Called({"into_result"}) /\ last.prev.op = "drop_mut"
    /\ last.res = ROk(MaxVal) /\ value[S] = None /\ strong[S] >= 1
    /\ is_none(value[S], flag[S]).res = ROk(B(TRUE))


\* the calls whose callback runs under the RefMut / under a Ref
ExclusiveCb == ComputeOps \cup AbsentOps \cup MapMuts \cup {"if_present_mut", "try_if_present_mut"}
SharedCb == {"map", "try_map", "if_present", "try_if_present"}
\* the calls that need shared access, and those that need exclusive access
SharedOps == SharedTry \cup {"borrow", "map", "if_present", "get_and_clone"}
ExclusiveOps ==
    ExclusiveTry \cup DirectMutators \cup ExclusiveCb \cup {"borrow_mut"}
\* the most recent call was made from inside the running callback, on the
\* slot of that callback's call, and is over
Inside(mode) ==
    /\ stack # <<>> /\ last.res # Running
    /\ Top.mode = mode /\ last.slot = Top.slot
    /\ last.op \in SharedOps \cup ExclusiveOps

\* C27: while the callback of compute, try_compute, compute_if_present,
\* if_present_mut or map_mut runs, the RefMut of the slot is outstanding: a
\* call made from inside the callback on the same slot is refused (a try
\* form with an access-conflict error, a direct form with a panic,
\* compute_if_absent with false), runs no callback and leaves the slot as it
\* is; when the call returns, the RefMut has been released before the
\* returned outcome was applied, applying it has not failed, and the slot is
\* free.  While the callback of map or if_present runs, a Ref is outstanding:
\* calls that need shared access go ahead and calls that need exclusive
\* access are refused.
C27_CallbackAccess ==
    /\ \A i \in 1 .. Len(stack) :
        /\ stack[i].op \in ExclusiveCb =>
            /\ stack[i].mode = "mut"
            /\ flag[stack[i].slot] = WRITING /\ muts[stack[i].slot] = 1
        /\ stack[i].op \in SharedCb =>
            /\ stack[i].mode = "ref"
            /\ flag[stack[i].slot] >= 1 /\ refs[stack[i].slot] >= 1
    /\ Inside("mut") =>
        /\ ~last.ran
        /\ last.res = IF last.op \in AbsentOps THEN ROk(B(FALSE))
                      ELSE IF last.op \in SharedOps THEN Refused(ErrNormal)
                      ELSE Refused(ErrMut)
        /\ value[S] = last.preVal /\ flag[S] = WRITING /\ last.preFlag = WRITING
    /\ (last.op \in ExclusiveCb /\ last.ran /\ Returned) =>
        /\ last.res.kind = "Ok"
        /\ flag[S] = UNUSED /\ refs[S] = 0 /\ muts[S] = 0
        /\ last.op \in ComputeOps =>
            (value[S] = Applied(last.arg, last.cbVal) \/ strong[S] = 0)
    /\ (Inside("ref") /\ last.op \in SharedOps) =>
        /\ last.res.err \notin {ErrNormal, ErrMut, ErrNoValue}
        /\ last.op \in {"borrow", "try_borrow", "get_and_clone", "try_get_and_clone"} =>
            last.res = ROk(last.preVal)
        /\ last.op \in SharedCb => last.ran
    /\ (Inside("ref") /\ last.op \in ExclusiveOps) =>
        /\ ~last.ran
        /\ last.res = IF last.op \in AbsentOps THEN ROk(B(FALSE)) ELSE Refused(ErrMut)
        /\ value[S] = last.preVal /\ flag[S] = last.preFlag

\* try_set was refused from inside the callback of compute and the slot is
\* as the callback found it
C27_Witness ==
    /\ stack # <<>> /\ Top.op = "compute" /\ Top.mode = "mut"
    /\ last.op = "try_set" /\ last.res = RErr(ErrMut) /\ last.slot = Top.slot
    /\ value[S] = last.preVal /\ flag[S] = WRITING


\* the most recent call failed by itself: it returned an RcOCellError or
\* panicked, and not because its callback panicked
Failed == last.res.kind \in {"Err", "Panic"} /\ last.res.err # "callback"

C29_IntoWeak ==
    /\ Called({"into_weak"}) =>
        /\ last.res = ROk(None)
        /\ last.preStrong >= 1 /\ strong[S] = last.preStrong - 1
        /\ last.preStrong = 1 =>
            /\ strong[S] = 0
            /\ ~RcUpgrade(strong[S]).ok
            /\ weak_is_none(strong[S], value[S], flag[S]).res = ROk(B(TRUE))
            /\ weak_is_some(strong[S], value[S], flag[S]).res = ROk(B(FALSE))
        /\ last.preStrong >= 2 =>
            /\ RcUpgrade(strong[S]).ok
            /\ value[S] = last.preVal /\ flag[S] = last.preFlag
    /\ (WeakCalled({"try_upgrade"}) /\ last.prev.op = "into_weak") =>
        /\ last.prev.val = 1 => (last.res = RErr(ErrDropped) /\ strong[S] = 0)
        /\ last.prev.val >= 2 =>
            (last.res = ROk(last.preVal) /\ strong[S] = last.prev.val)
    /\ (WeakCalled({"is_none"}) /\ last.prev.op = "into_weak" /\ last.prev.val = 1) =>
        last.res = ROk(B(TRUE))

\* the only cell of a populated slot was converted and the try_upgrade that
\* followed returned Dropped
C29_Witness ==
    /\ WeakCalled({"try_upgrade"}) /\ last.prev = [op |-> "into_weak", val |-> 1]
    /\ last.res = RErr(ErrDropped) /\ strong[S] = 0


\* C30: in every reachable state is_some() and is_none() give opposite
\* answers, on every cell and on every weak reference, whether the slot is
\* alive or destroyed and whether it is free, shared or exclusive.
C30_Opposite ==
    \A s \in Slots :
        /\ strong[s] >= 1 =>
            /\ is_some(value[s], flag[s]).res.kind = "Ok"
            /\ is_none(value[s], flag[s]).res.kind = "Ok"
            /\ is_some(value[s], flag[s]).res.val
                  = 1 - is_none(value[s], flag[s]).res.val
        /\ weak_is_some(strong[s], value[s], flag[s]).res.kind = "Ok"
        /\ weak_is_none(strong[s], value[s], flag[s]).res.kind = "Ok"
        /\ weak_is_some(strong[s], value[s], flag[s]).res.val
              = 1 - weak_is_none(strong[s], value[s], flag[s]).res.val

\* is_none on a cell answered false under the RefMut of a running compute,
\* where is_some answers true
C30_Witness ==
    /\ Called({"is_none"}) /\ last.res = ROk(B(FALSE))
    /\ stack # <<>> /\ flag[S] = WRITING
    /\ is_some(value[S], flag[S]).res = ROk(B(TRUE))


=============================================================================
